---- MODULE Spec2Model ----
(***************************************************************************)
(* pqlbench: a command line tool that replays a list of PromQL queries     *)
(* against a Promscale instance through a bounded number of concurrent     *)
(* workers, and summarises the measured latencies (src/main.go).           *)
(*                                                                         *)
(* Two specifications:                                                     *)
(*   Spec       a whole run of main(): parseFlags, benchmark with its      *)
(*              worker goroutines, getQueriesStats, exit.                  *)
(*   StatsSpec  getQueriesStats applied to bounded query lists, as         *)
(*              Test_getQueriesStats applies it.                           *)
(* FairSpec is Spec with the fairness the Go scheduler gives runnable      *)
(* goroutines.                                                             *)
(*                                                                         *)
(* Go's int64 and float64 are modelled by TLA+ integers and by rationals   *)
(* [num, den]; within the bounds below no value leaves the range in which  *)
(* int64 arithmetic and the int64 -> float64 conversion are exact.         *)
(***************************************************************************)
EXTENDS Integers, Sequences, FiniteSets, TLC

\* ------------------------------------------------------------------ bounds

\* Longest descriptor list handed to benchmark.
MaxQueries == 2
\* The wall clock runs from 0 to MaxTime milliseconds.
MaxTime == 1
\* Longest query list handed to getQueriesStats directly.
MaxLen == 4
\* Largest End of a query handed to getQueriesStats directly (Start is 0 or 1).
MaxEnd == 4

\* Most characters of a host name after its scheme prefix.
MaxName == 3

VARIABLES
    proc,         \* the process: "running", or how it ended
    mainPc,       \* position of the main goroutine
    argWorkers,   \* os.Args: the value of --workers
    argFilepath,  \* os.Args: the value of --filepath ("" when absent)
    queries,      \* the descriptor list read from the file, benchmark's argument
    workersCap,   \* capacity of the channel `workers`
    permits,      \* number of elements buffered in the channel `workers`
    wg,           \* counter of the WaitGroup
    errorList,    \* benchmark's errorList
    queryList,    \* benchmark's queryList (getQueriesStats's argument)
    now,          \* the wall clock, in milliseconds
    bstart,       \* benchmark's start
    bend,         \* benchmark's end
    stats,        \* the Stats that benchmark / getQueriesStats returned
    spawned,      \* number of goroutines the loop of benchmark has started
    urlRawQuery,  \* c.URL.RawQuery of the shared Client (0: not yet set)
    wpc,          \* per goroutine: its position
    wq,           \* per goroutine: its copy q of the descriptor
    wresp,        \* per goroutine: resp
    werr,         \* per goroutine: err (0: nil, else the cause)
    wtmp,         \* per goroutine: the slice value read by an append in progress
    wstart,       \* per goroutine: start of getHTTPQuery (0 outside the call)
    wheld,        \* per goroutine: TRUE between its channel send and receive
    firstRun,     \* what an earlier call of benchmark on the same list came to
    argURL,       \* os.Args: the value of --promscale.url, a sequence of characters
    cliURL        \* cli.URL: Scheme and Host of the Client that newHTTPClient made

vars == <<proc, mainPc, argWorkers, argFilepath, queries, workersCap, permits, wg,
          errorList, queryList, now, bstart, bend, stats, spawned, urlRawQuery,
          wpc, wq, wresp, werr, wtmp, wstart, wheld, firstRun, argURL, cliURL>>

\* ------------------------------------------------------------------ data

\* type Query
Query(text, start, end, step) == [Query |-> text, Start |-> start, End |-> end, Step |-> step]

\* A rational number standing for a float64.
Rat(n, d) == [num |-> n, den |-> d]

\* The nil *Response.
NilResp == [isNil |-> TRUE, StatusCode |-> 0, Start |-> 0, End |-> 0]

\* &Response{resp, Timestamp{Start: start, End: end}}
Response(code, start, end) == [isNil |-> FALSE, StatusCode |-> code, Start |-> start, End |-> end]

\* The zero Stats value.
ZeroStats == [Average |-> Rat(0, 1), Errors |-> <<>>, Fastest |-> 0, Median |-> Rat(0, 1),
              Processed |-> 0, Slowest |-> 0, Total |-> 0]

\* The URL of a Client that has not been made.
NoURL == [Scheme |-> <<>>, Host |-> <<>>]

\* ------------------------------------------------------------------ newHTTPClient

\* The scheme prefixes that schemeRegex, ^((http[s]?|ftp):\/)\/, matches.
SchemePrefixes ==
    { <<"h", "t", "t", "p", ":", "/", "/">>,
      <<"h", "t", "t", "p", "s", ":", "/", "/">>,
      <<"f", "t", "p", ":", "/", "/">> }

\* text begins with pre.
HasPrefix(text, pre) ==
    /\ Len(pre) <= Len(text)
    /\ SubSeq(text, 1, Len(pre)) = pre

\* getScheme: the match of schemeRegex at the start of text, <<>> for nil.
getScheme(text) ==
    IF \E pre \in SchemePrefixes : HasPrefix(text, pre)
    THEN CHOOSE pre \in SchemePrefixes : HasPrefix(text, pre)
    ELSE <<>>

\* The characters of a cutset.
CutSet(cutset) == {cutset[i] : i \in 1 .. Len(cutset)}

\* strings.TrimLeft(str, cutset): str without its leading characters that are in
\* the cutset.
RECURSIVE TrimLeft(_, _)
TrimLeft(str, cutset) ==
    IF Len(str) > 0 /\ Head(str) \in CutSet(cutset)
    THEN TrimLeft(Tail(str), cutset)
    ELSE str

\* strings.TrimRight(str, cutset): str without its trailing characters that are in
\* the cutset.
RECURSIVE TrimRight(_, _)
TrimRight(str, cutset) ==
    IF Len(str) > 0 /\ str[Len(str)] \in CutSet(cutset)
    THEN TrimRight(SubSeq(str, 1, Len(str) - 1), cutset)
    ELSE str

\* newHTTPClient: the Scheme and Host of the URL of the Client it returns.
newHTTPClient(host) ==
    IF getScheme(host) # <<>>
    THEN [Scheme |-> TrimRight(getScheme(host), <<":", "/", "/">>),
          Host |-> TrimLeft(host, getScheme(host))]
    ELSE [Scheme |-> <<"h", "t", "t", "p", "s">>, Host |-> host]

\* The default of --promscale.url, http://localhost:9201, with a short host name.
DefaultURL == <<"h", "t", "t", "p", ":", "/", "/", "l">>

\* No earlier call of benchmark: the record of one that has not run.
NoRun == [ran |-> FALSE, stats |-> ZeroStats, err |-> <<>>, elapsed |-> <<>>]

\* ------------------------------------------------------------------ getQueriesStats

\* math.MaxInt64, the initial value of fastest. TLC's integers are 32 bits wide, so
\* the largest of them stands for it; every elapsed time of the model is far below.
MaxInt64 == 2147483647

\* The loop of getQueriesStats over queryList[i..]: acc holds fastest, slowest, the
\* running sum `average` and timeDiffs.
RECURSIVE StatsLoop(_, _, _)
StatsLoop(ql, i, acc) ==
    IF i > Len(ql) THEN acc
    ELSE LET timeDiff == ql[i].End - ql[i].Start
         IN  StatsLoop(ql, i + 1,
                 [fastest   |-> IF timeDiff < acc.fastest THEN timeDiff ELSE acc.fastest,
                  slowest   |-> IF timeDiff > acc.slowest THEN timeDiff ELSE acc.slowest,
                  average   |-> acc.average + timeDiff,
                  timeDiffs |-> Append(acc.timeDiffs, timeDiff)])

\* data.Swap(i, j)
Swap(s, i, j) == [s EXCEPT ![i] = s[j], ![j] = s[i]]

\* The inner loop of the insertion sort: element j moves left while it is less than
\* its left neighbour.
RECURSIVE InsertLeft(_, _)
InsertLeft(s, j) ==
    IF j > 1 /\ s[j] < s[j - 1] THEN InsertLeft(Swap(s, j, j - 1), j - 1) ELSE s

\* The outer loop of the insertion sort, from element i on.
RECURSIVE InsertionSort(_, _)
InsertionSort(s, i) ==
    IF i > Len(s) THEN s ELSE InsertionSort(InsertLeft(s, i), i + 1)

\* A sort that was left out: the slice as it is.
SortSliceOmitted(s) == s

\* sort.Slice(timeDiffs, less) with less(i, j) = timeDiffs[i] < timeDiffs[j]; for
\* slices of fewer than 12 elements Go sorts by insertion.
SortSlice(s) == InsertionSort(s, 2)

\* The inner loop of an insertion sort of the queries themselves, by elapsed time.
RECURSIVE InsertQueryLeft(_, _)
InsertQueryLeft(ql, j) ==
    IF j > 1 /\ ql[j].End - ql[j].Start < ql[j - 1].End - ql[j - 1].Start
    THEN InsertQueryLeft(Swap(ql, j, j - 1), j - 1)
    ELSE ql

\* The outer loop of that sort, from element i on.
RECURSIVE SortQueries(_, _)
SortQueries(ql, i) ==
    IF i > Len(ql) THEN ql ELSE SortQueries(InsertQueryLeft(ql, i), i + 1)

\* A getQueriesStats that sorts the list it was given, in place.
ListSortedInPlace(ql) == SortQueries(ql, 2)

\* The caller's list after getQueriesStats: the function reads queryList[i] and
\* sorts timeDiffs, a slice of its own, so the list is as it was.
ListAfterStats(ql) == ql

\* Whether the median computation indexes timeDiffs out of range (a run-time panic):
\* an even length takes timeDiffs[mNumber-1], an odd one timeDiffs[mNumber], 0-based.
MedianPanics(n) ==
    LET mNumber == n \div 2
    IN  IF n % 2 # 0 THEN ~(mNumber < n) ELSE ~(0 <= mNumber - 1 /\ mNumber < n)

\* The median of the sorted timeDiffs t (0-based index k is t[k + 1]).
MedianOf(t) ==
    LET mNumber == Len(t) \div 2
    IN  IF Len(t) % 2 # 0
        THEN Rat(t[mNumber + 1], 1)
        ELSE Rat(t[mNumber] + t[mNumber + 1], 2)

\* getQueriesStats with fastest starting at zero, as slowest does.
getQueriesStatsFastestZero(ql) ==
    LET acc == StatsLoop(ql, 1, [fastest |-> 0, slowest |-> 0, average |-> 0,
                                 timeDiffs |-> <<>>])
        timeDiffs == SortSlice(acc.timeDiffs)
    IN  [ZeroStats EXCEPT !.Average = Rat(acc.average, Len(ql)),
                          !.Fastest = acc.fastest,
                          !.Median  = MedianOf(timeDiffs),
                          !.Slowest = acc.slowest]

\* getQueriesStats without the division of the sum by the number of queries.
getQueriesStatsNoDivide(ql) ==
    LET acc == StatsLoop(ql, 1, [fastest |-> MaxInt64, slowest |-> 0, average |-> 0,
                                 timeDiffs |-> <<>>])
        timeDiffs == SortSlice(acc.timeDiffs)
    IN  [ZeroStats EXCEPT !.Average = Rat(acc.average, 1),
                          !.Fastest = acc.fastest,
                          !.Median  = MedianOf(timeDiffs),
                          !.Slowest = acc.slowest]

\* getQueriesStats(queryList), when it does not panic.
getQueriesStats(ql) ==
    LET acc == StatsLoop(ql, 1, [fastest |-> MaxInt64, slowest |-> 0, average |-> 0,
                                 timeDiffs |-> <<>>])
        timeDiffs == SortSlice(acc.timeDiffs)
    IN  [ZeroStats EXCEPT !.Average = Rat(acc.average, Len(ql)),
                          !.Fastest = acc.fastest,
                          !.Median  = MedianOf(timeDiffs),
                          !.Slowest = acc.slowest]

\* ------------------------------------------------------------------ helpers of the run

\* The values of --workers that are tried: a negative one, zero, and every capacity
\* up to the length of the longest list (a larger one admits every goroutine, as
\* that one does).
WorkerVals == -1 .. MaxQueries

\* The values of --filepath that are tried: absent, or a readable file.
FilepathVals == {"", "promql_queries.csv"}

\* readFile: the descriptor list of a file of n rows.
FileQueries(n) == [i \in 1 .. n |-> Query(i, i, i + i, i)]

\* The goroutines that benchmark starts, one per descriptor.
Workers == 1 .. Len(queries)

\* What c.Client.Get can come back with: a status code, or 0 for a transport error.
GetOutcomes == {200, 204, 500, 0}

\* A getHTTPQuery that hands back a Response together with its error.
RespWithError(code, start, end) ==
    IF code = 0 THEN NilResp ELSE Response(code, start, end)

\* getHTTPQuery's first result: nil when Get failed or the status is not 200.
getHTTPQueryResp(code, start, end) ==
    IF code = 0 THEN NilResp
    ELSE IF code # 200 THEN NilResp
    ELSE Response(code, start, end)

\* A getHTTPQuery that takes every 2xx status for a success.
getHTTPQueryErr2xx(code) ==
    IF code = 0 THEN 1
    ELSE IF code < 200 \/ code >= 300 THEN code
    ELSE 0

\* getHTTPQuery's second result: 0 for nil, else the cause (1: transport error,
\* otherwise the unexpected status code).
getHTTPQueryErr(code) ==
    IF code = 0 THEN 1
    ELSE IF code # 200 THEN code
    ELSE 0

\* fmt.Errorf("query=%v, error=%v", q, err)
Cause(q, err) == [query |-> q.Query, error |-> err]

\* A channel send that also succeeds on a full buffer.
CanSendFull(n, cap) == n <= cap

\* workers <- struct{}{} can proceed: the buffer has room.
CanSend(n, cap) == n < cap

\* A Wait that does not wait.
WaitNoWait(c) == TRUE

\* wg.Wait() returns: the counter is zero.
WaitReturns(c) == c = 0

\* Processed counted from the timed entries instead.
ProcessedFromList(qs, el, ql) == Len(ql)

\* stats.Processed
Processed(qs, el, ql) == Len(qs) - Len(el)

\* The runtime finds every goroutine asleep: main waits, and every goroutine that
\* has not finished is blocked on the channel send.
AllAsleep ==
    /\ mainPc = "wait"
    /\ ~WaitReturns(wg)
    /\ \A w \in Workers : wpc[w] \in {"acquire", "done"}
    /\ ~CanSend(permits, workersCap)

\* ------------------------------------------------------------------ the run of main()

\* time.Now() returns t: the wall clock never runs backwards, and what it shows
\* between two readings is seen by nobody, so it moves when it is read. It counts
\* from benchmark's first reading, which returns the `now` of Init.
TimeNow(t) ==
    /\ t \in now .. MaxTime
    /\ now' = t

Init ==
    /\ proc = "running"
    /\ mainPc = "parseFlags"
    /\ argWorkers \in WorkerVals
    /\ argFilepath \in FilepathVals
    /\ \E n \in 0 .. MaxQueries : queries = FileQueries(n)
    /\ workersCap = 0
    /\ permits = 0
    /\ wg = 0
    /\ errorList = <<>>
    /\ queryList = <<>>
    /\ now = 0
    /\ bstart = 0
    /\ bend = 0
    /\ stats = ZeroStats
    /\ spawned = 0
    /\ urlRawQuery = 0
    /\ wpc = [w \in Workers |-> "unborn"]
    /\ wq = [w \in Workers |-> queries[w]]
    /\ wresp = [w \in Workers |-> NilResp]
    /\ werr = [w \in Workers |-> 0]
    /\ wtmp = [w \in Workers |-> <<>>]
    /\ wstart = [w \in Workers |-> 0]
    /\ wheld = [w \in Workers |-> FALSE]
    /\ firstRun = NoRun
    /\ argURL = DefaultURL
    /\ cliURL = NoURL

\* What no step of main changes.
WorkerLocals == <<wq, wresp, werr, wtmp, wstart, wheld>>

\* What no step of a goroutine changes.
MainLocals == <<mainPc, argWorkers, argFilepath, queries, workersCap, bstart, bend,
                stats, spawned, firstRun, argURL, cliURL>>

\* What no step of a goroutine changes, the caller's descriptor list apart.
BenchLocals == <<mainPc, argWorkers, argFilepath, workersCap, bstart, bend, stats,
                 spawned, firstRun, argURL, cliURL>>

\* main up to the call of benchmark. parseFlags: a missing --filepath is an error and
\* main exits with status 1; the value of --workers is taken as it is. Then
\* cli := newHTTPClient(cfg.URL).
ParseFlags ==
    /\ proc = "running"
    /\ mainPc = "parseFlags"
    /\ IF argFilepath = ""
       THEN proc' = "exit1" /\ mainPc' = mainPc /\ cliURL' = cliURL
       ELSE proc' = proc /\ mainPc' = "benchmark" /\ cliURL' = newHTTPClient(argURL)
    /\ UNCHANGED <<argWorkers, argFilepath, queries, workersCap, permits, wg, errorList,
                   queryList, now, bstart, bend, stats, spawned, urlRawQuery, wpc>>
    /\ UNCHANGED <<WorkerLocals, firstRun, argURL>>

\* benchmark up to the loop: wg.Add(len(queries)), make(chan struct{}, n), which
\* panics for n < 0, and start := time.Now().
BenchmarkEnter ==
    /\ proc = "running"
    /\ mainPc = "benchmark"
    /\ IF argWorkers < 0
       THEN /\ proc' = "panic_makechan"
            /\ UNCHANGED <<mainPc, workersCap, bstart, now>>
       ELSE /\ proc' = proc
            /\ workersCap' = argWorkers
            /\ TimeNow(now) /\ bstart' = now
            /\ mainPc' = IF Len(queries) = 0 THEN "wait" ELSE "spawn"
    /\ wg' = wg + Len(queries)
    /\ UNCHANGED <<argWorkers, argFilepath, queries, permits, errorList, queryList,
                   bend, stats, spawned, urlRawQuery, wpc>>
    /\ UNCHANGED <<WorkerLocals, firstRun, argURL, cliURL>>

\* One iteration of the loop: go func(q Query){...}(queries[i]).
Spawn ==
    /\ proc = "running"
    /\ mainPc = "spawn"
    /\ spawned' = spawned + 1
    /\ wpc' = [wpc EXCEPT ![spawned + 1] = "acquire"]
    /\ wq' = [wq EXCEPT ![spawned + 1] = queries[spawned + 1]]
    /\ mainPc' = IF spawned + 1 = Len(queries) THEN "wait" ELSE "spawn"
    /\ UNCHANGED <<proc, argWorkers, argFilepath, queries, workersCap, permits, wg,
                   errorList, queryList, now, bstart, bend, stats, urlRawQuery>>
    /\ UNCHANGED <<wresp, werr, wtmp, wstart, wheld, firstRun, argURL, cliURL>>

\* wg.Wait() returns; end := time.Now().
Wait ==
    /\ proc = "running"
    /\ mainPc = "wait"
    /\ WaitReturns(wg)
    /\ \E t \in 0 .. MaxTime : TimeNow(t) /\ bend' = t
    /\ mainPc' = "stats"
    /\ UNCHANGED <<proc, argWorkers, argFilepath, queries, workersCap, permits, wg,
                   errorList, queryList, bstart, stats, spawned, urlRawQuery, wpc>>
    /\ UNCHANGED <<WorkerLocals, firstRun, argURL, cliURL>>

\* The end of benchmark: getQueriesStats(queryList), which panics on an index out of
\* range, then Processed, Total and Errors; benchmark returns.
BuildStats ==
    /\ proc = "running"
    /\ mainPc = "stats"
    /\ IF MedianPanics(Len(queryList))
       THEN /\ proc' = "panic_index"
            /\ UNCHANGED <<mainPc, stats>>
       ELSE /\ proc' = proc
            /\ stats' = [getQueriesStats(queryList) EXCEPT
                            !.Processed = Processed(queries, errorList, queryList),
                            !.Total = bend - bstart,
                            !.Errors = errorList]
            /\ mainPc' = "returned"
    /\ queryList' = IF MedianPanics(Len(queryList)) THEN queryList
                    ELSE ListAfterStats(queryList)
    /\ UNCHANGED <<argWorkers, argFilepath, queries, workersCap, permits, wg, errorList,
                   now, bstart, bend, spawned, urlRawQuery, wpc>>
    /\ UNCHANGED <<WorkerLocals, firstRun, argURL, cliURL>>

\* main after benchmark: the report is logged and main returns, which ends the
\* process and every goroutine with it.
MainExit ==
    /\ proc = "running"
    /\ mainPc = "returned"
    /\ proc' = "exit0"
    /\ UNCHANGED <<mainPc, argWorkers, argFilepath, queries, workersCap, permits, wg,
                   errorList, queryList, now, bstart, bend, stats, spawned, urlRawQuery,
                   wpc>>
    /\ UNCHANGED <<WorkerLocals, firstRun, argURL, cliURL>>

\* ------------------------------------------------------------------ a worker goroutine

\* workers <- struct{}{}
Acquire(w) ==
    /\ proc = "running"
    /\ wpc[w] = "acquire"
    /\ CanSend(permits, workersCap)
    /\ permits' = permits + 1
    /\ wheld' = [wheld EXCEPT ![w] = TRUE]
    /\ wpc' = [wpc EXCEPT ![w] = "buildURL"]
    /\ UNCHANGED MainLocals
    /\ UNCHANGED <<proc, wg, errorList, queryList, now, urlRawQuery, wq, wresp, werr,
                   wtmp, wstart>>

\* getHTTPQuery: c.URL.Path and c.URL.RawQuery of the shared Client are set from q.
BuildURL(w) ==
    /\ proc = "running"
    /\ wpc[w] = "buildURL"
    /\ urlRawQuery' = wq[w].Query
    /\ wpc' = [wpc EXCEPT ![w] = "get"]
    /\ UNCHANGED MainLocals
    /\ UNCHANGED <<proc, permits, wg, errorList, queryList, now, wq, wresp, werr, wtmp,
                   wstart, wheld>>

\* getHTTPQuery: start := time.Now(); c.Client.Get(c.URL.String()) is sent.
SendGet(w) ==
    /\ proc = "running"
    /\ wpc[w] = "get"
    /\ \E t \in 0 .. MaxTime : TimeNow(t) /\ wstart' = [wstart EXCEPT ![w] = t]
    /\ urlRawQuery' = urlRawQuery
    /\ wpc' = [wpc EXCEPT ![w] = "inflight"]
    /\ UNCHANGED MainLocals
    /\ UNCHANGED <<proc, permits, wg, errorList, queryList, wq, wresp, werr, wtmp,
                   wheld>>

\* A goroutine that overwrites Start and End in the element of the caller's list.
CallerQueriesAliased(qs, w, resp) ==
    [qs EXCEPT ![w].Start = resp.Start, ![w].End = resp.End]

\* The caller's list after goroutine w has overwritten q.Start and q.End: q is the
\* parameter of the goroutine's function, a copy of queries[i], so the list keeps
\* its elements.
CallerQueries(qs, w, resp) == qs

\* What the goroutine does between two accesses to shared state, after it has
\* looked at err: resp.StatusCode panics on a nil resp, and the deferred function
\* runs next; otherwise q.Start and q.End are overwritten and append reads the slice
\* queryList.
AfterErr(w, resp) ==
    IF resp.isNil
    THEN /\ wpc' = [wpc EXCEPT ![w] = "panicRelease"]
         /\ wq' = wq
         /\ wtmp' = [wtmp EXCEPT ![w] = <<>>]
         /\ queries' = queries
    ELSE /\ wpc' = [wpc EXCEPT ![w] = "queryWrite"]
         /\ wq' = [wq EXCEPT ![w].Start = resp.Start, ![w].End = resp.End]
         /\ wtmp' = [wtmp EXCEPT ![w] = queryList]
         /\ queries' = CallerQueries(queries, w, resp)

\* getHTTPQuery: Get comes back with `code`; end := time.Now(); the results are
\* returned to the goroutine as resp, err. If err != nil, append reads the slice
\* errorList; if not, the goroutine goes on to resp.
GetReturn(w, code) ==
    /\ proc = "running"
    /\ wpc[w] = "inflight"
    /\ \E t \in 0 .. MaxTime :
          /\ TimeNow(t)
          /\ wresp' = [wresp EXCEPT ![w] = getHTTPQueryResp(code, wstart[w], t)]
    /\ werr' = [werr EXCEPT ![w] = getHTTPQueryErr(code)]
    /\ IF werr'[w] # 0
       THEN /\ wtmp' = [wtmp EXCEPT ![w] = errorList]
            /\ wpc' = [wpc EXCEPT ![w] = "errWrite"]
            /\ wq' = wq
            /\ queries' = queries
       ELSE AfterErr(w, wresp'[w])
    /\ UNCHANGED BenchLocals
    /\ wstart' = [wstart EXCEPT ![w] = 0]
    /\ UNCHANGED <<proc, permits, wg, errorList, queryList, urlRawQuery, wheld>>

\* errorList = append(errorList, ...): the slice that was read, one longer, is stored;
\* the goroutine goes on to resp.
ErrWrite(w) ==
    /\ proc = "running"
    /\ wpc[w] = "errWrite"
    /\ errorList' = Append(wtmp[w], Cause(wq[w], werr[w]))
    /\ AfterErr(w, wresp[w])
    /\ UNCHANGED BenchLocals
    /\ UNCHANGED <<proc, permits, wg, queryList, now, urlRawQuery, wresp, werr, wstart, wheld>>

\* queryList = append(queryList, q): the slice that was read, one longer, is stored.
QueryWrite(w) ==
    /\ proc = "running"
    /\ wpc[w] = "queryWrite"
    /\ queryList' = Append(wtmp[w], wq[w])
    /\ wtmp' = [wtmp EXCEPT ![w] = <<>>]
    /\ wpc' = [wpc EXCEPT ![w] = "release"]
    /\ UNCHANGED MainLocals
    /\ UNCHANGED <<proc, permits, wg, errorList, now, urlRawQuery, wq, wresp, werr,
                   wstart, wheld>>

\* A receive that is not deferred: it is skipped when the goroutine panics.
ReleaseNotDeferred(w) ==
    /\ proc = "running"
    /\ wpc[w] \in {"release", "panicRelease"}
    /\ IF wpc[w] = "release"
       THEN /\ permits' = permits - 1
            /\ wheld' = [wheld EXCEPT ![w] = FALSE]
       ELSE UNCHANGED <<permits, wheld>>
    /\ wpc' = [wpc EXCEPT ![w] = IF wpc[w] = "release" THEN "wgDone" ELSE "panicWgDone"]
    /\ UNCHANGED MainLocals
    /\ UNCHANGED <<proc, wg, errorList, queryList, now, urlRawQuery, wq, wresp, werr,
                   wtmp, wstart>>

\* The deferred function, first statement: <-workers. It runs on return and on panic.
Release(w) ==
    /\ proc = "running"
    /\ wpc[w] \in {"release", "panicRelease"}
    /\ permits' = permits - 1
    /\ wheld' = [wheld EXCEPT ![w] = FALSE]
    /\ wpc' = [wpc EXCEPT ![w] = IF wpc[w] = "release" THEN "wgDone" ELSE "panicWgDone"]
    /\ UNCHANGED MainLocals
    /\ UNCHANGED <<proc, wg, errorList, queryList, now, urlRawQuery, wq, wresp, werr,
                   wtmp, wstart>>

\* The deferred function, second statement: wg.Add(-1). The goroutine then ends, or
\* goes on panicking.
WgDone(w) ==
    /\ proc = "running"
    /\ wpc[w] \in {"wgDone", "panicWgDone"}
    /\ wg' = wg - 1
    /\ wpc' = [wpc EXCEPT ![w] = IF wpc[w] = "wgDone" THEN "done" ELSE "panicking"]
    /\ UNCHANGED MainLocals
    /\ UNCHANGED <<proc, permits, errorList, queryList, now, urlRawQuery, wq, wresp,
                   werr, wtmp, wstart, wheld>>

\* A panic that no deferred function recovered ends the process.
Crash(w) ==
    /\ proc = "running"
    /\ wpc[w] = "panicking"
    /\ proc' = "panic_nilderef"
    /\ UNCHANGED MainLocals
    /\ UNCHANGED <<permits, wg, errorList, queryList, now, urlRawQuery, wpc, wq, wresp,
                   werr, wtmp, wstart, wheld>>

\* The runtime ends the process when every goroutine is asleep.
Deadlock ==
    /\ proc = "running"
    /\ AllAsleep
    /\ proc' = "deadlock"
    /\ UNCHANGED MainLocals
    /\ UNCHANGED <<permits, wg, errorList, queryList, now, urlRawQuery, wpc, wq, wresp,
                   werr, wtmp, wstart, wheld>>

\* A step of the main goroutine.
MainStep ==
    \/ ParseFlags
    \/ BenchmarkEnter
    \/ Spawn
    \/ Wait
    \/ BuildStats
    \/ MainExit

\* A step of worker goroutine w.
WorkerStep(w) ==
    \/ Acquire(w)
    \/ BuildURL(w)
    \/ SendGet(w)
    \/ \E code \in GetOutcomes : GetReturn(w, code)
    \/ ErrWrite(w)
    \/ QueryWrite(w)
    \/ Release(w)
    \/ WgDone(w)
    \/ Crash(w)

Next ==
    \/ MainStep
    \/ \E w \in Workers : WorkerStep(w)
    \/ Deadlock

Spec == Init /\ [][Next]_vars

\* The Go scheduler runs every runnable goroutine eventually, every network call
\* comes back (the client's timeout is one second), and the runtime acts on a panic
\* and on a deadlock.
FairSpec ==
    /\ Spec
    /\ WF_vars(MainStep)
    /\ \A w \in 1 .. MaxQueries : WF_vars(w \in Workers /\ WorkerStep(w))
    /\ WF_vars(Deadlock)

\* ------------------------------------------------------------------ benchmark, twice

\* benchmark has returned and every goroutine it started has ended; it is called
\* again with the same client, list and number of workers. What the first call
\* returned and what getHTTPQuery gave each goroutine is kept.
RunAgain ==
    /\ proc = "running"
    /\ mainPc = "returned"
    /\ ~firstRun.ran
    /\ \A w \in Workers : wpc[w] = "done"
    /\ firstRun' = [ran |-> TRUE,
                    stats |-> stats,
                    err |-> werr,
                    elapsed |-> [w \in Workers |-> wresp[w].End - wresp[w].Start]]
    /\ mainPc' = "benchmark"
    /\ workersCap' = 0
    /\ permits' = 0
    /\ wg' = 0
    /\ errorList' = <<>>
    /\ queryList' = <<>>
    /\ now' = 0
    /\ bstart' = 0
    /\ bend' = 0
    /\ stats' = ZeroStats
    /\ spawned' = 0
    /\ urlRawQuery' = 0
    /\ wpc' = [w \in Workers |-> "unborn"]
    /\ wq' = [w \in Workers |-> queries[w]]
    /\ wresp' = [w \in Workers |-> NilResp]
    /\ werr' = [w \in Workers |-> 0]
    /\ wtmp' = [w \in Workers |-> <<>>]
    /\ wstart' = [w \in Workers |-> 0]
    /\ wheld' = [w \in Workers |-> FALSE]
    /\ UNCHANGED <<proc, argWorkers, argFilepath, queries, argURL, cliURL>>

\* The server behind c.Client.Get is the same for both calls: in the second, Get
\* comes back for each descriptor with what it came back with in the first, after
\* the same time.
SameStub ==
    firstRun.ran =>
        \A w \in Workers :
            (wpc[w] = "inflight" /\ wpc'[w] # "inflight") =>
                /\ werr'[w] = firstRun.err[w]
                /\ wresp'[w].End - wresp'[w].Start = firstRun.elapsed[w]

NextTwice ==
    \/ Next /\ SameStub
    \/ RunAgain

TwiceSpec == Init /\ [][NextTwice]_vars

\* ------------------------------------------------------------------ getQueriesStats alone

\* The queries handed to getQueriesStats directly, as Test_getQueriesStats builds them.
StatsQueries == {Query(0, st, en, 0) : st \in 0 .. 1, en \in 0 .. MaxEnd}

\* The query lists handed to getQueriesStats directly.
StatsInputs == UNION {[1 .. n -> StatsQueries] : n \in 0 .. MaxLen}

InitStats ==
    /\ proc = "running"
    /\ mainPc = "test"
    /\ argWorkers = 1
    /\ argFilepath = ""
    /\ queries = <<>>
    /\ workersCap = 0
    /\ permits = 0
    /\ wg = 0
    /\ errorList = <<>>
    /\ queryList \in StatsInputs
    /\ now = 0
    /\ bstart = 0
    /\ bend = 0
    /\ stats = ZeroStats
    /\ spawned = 0
    /\ urlRawQuery = 0
    /\ wpc = <<>>
    /\ wq = <<>>
    /\ wresp = <<>>
    /\ werr = <<>>
    /\ wtmp = <<>>
    /\ wstart = <<>>
    /\ wheld = <<>>
    /\ firstRun = NoRun
    /\ argURL = DefaultURL
    /\ cliURL = NoURL

\* got := getQueriesStats(tt.queryList), which panics on an index out of range.
TestCall ==
    /\ proc = "running"
    /\ mainPc = "test"
    /\ IF MedianPanics(Len(queryList))
       THEN /\ proc' = "panic_index"
            /\ UNCHANGED <<mainPc, stats>>
       ELSE /\ proc' = proc
            /\ stats' = getQueriesStats(queryList)
            /\ mainPc' = "tested"
    /\ queryList' = IF MedianPanics(Len(queryList)) THEN queryList
                    ELSE ListAfterStats(queryList)
    /\ UNCHANGED <<argWorkers, argFilepath, queries, workersCap, permits, wg, errorList,
                   now, bstart, bend, spawned, urlRawQuery, wpc>>
    /\ UNCHANGED <<WorkerLocals, firstRun, argURL, cliURL>>

\* getQueriesStats is called once more on the list the first call was given.
TestCallAgain ==
    /\ proc = "running"
    /\ mainPc = "tested"
    /\ stats' = getQueriesStats(queryList)
    /\ queryList' = ListAfterStats(queryList)
    /\ mainPc' = "testedAgain"
    /\ UNCHANGED <<proc, argWorkers, argFilepath, queries, workersCap, permits, wg,
                   errorList, now, bstart, bend, spawned, urlRawQuery, wpc>>
    /\ UNCHANGED <<WorkerLocals, firstRun, argURL, cliURL>>

NextStats ==
    \/ TestCall
    \/ TestCallAgain

StatsSpec == InitStats /\ [][NextStats]_vars

\* ------------------------------------------------------------------ newHTTPClient alone

\* What may stand before the host name: nothing, a scheme that schemeRegex matches,
\* or the "://" of Test_getScheme's wrong scheme.
InputPrefixes == SchemePrefixes \cup {<<>>, <<":", "/", "/">>}

\* The characters of the host names.
NameChars == {"p", "s", "l", "/"}

\* The host names, of up to MaxName characters.
Names == UNION {[1 .. n -> NameChars] : n \in 0 .. MaxName}

\* The strings handed to newHTTPClient.
HostInputs == {pre \o name : pre \in InputPrefixes, name \in Names}

InitClient ==
    /\ proc = "running"
    /\ mainPc = "newClient"
    /\ argWorkers = 1
    /\ argFilepath = ""
    /\ queries = <<>>
    /\ workersCap = 0
    /\ permits = 0
    /\ wg = 0
    /\ errorList = <<>>
    /\ queryList = <<>>
    /\ now = 0
    /\ bstart = 0
    /\ bend = 0
    /\ stats = ZeroStats
    /\ spawned = 0
    /\ urlRawQuery = 0
    /\ wpc = <<>>
    /\ wq = <<>>
    /\ wresp = <<>>
    /\ werr = <<>>
    /\ wtmp = <<>>
    /\ wstart = <<>>
    /\ wheld = <<>>
    /\ firstRun = NoRun
    /\ argURL \in HostInputs
    /\ cliURL = NoURL

\* cli := newHTTPClient(host)
NewClient ==
    /\ proc = "running"
    /\ mainPc = "newClient"
    /\ cliURL' = newHTTPClient(argURL)
    /\ mainPc' = "clientMade"
    /\ UNCHANGED <<proc, argWorkers, argFilepath, queries, workersCap, permits, wg,
                   errorList, queryList, now, bstart, bend, stats, spawned, urlRawQuery,
                   wpc>>
    /\ UNCHANGED <<WorkerLocals, firstRun, argURL>>

NextClient == NewClient

ClientSpec == InitClient /\ [][NextClient]_vars

\* ------------------------------------------------------------------ properties

\* The positions at which a goroutine has sent on `workers` and not yet received.
InPermit == {"buildURL", "get", "inflight", "errWrite", "queryWrite", "release",
             "panicRelease"}

\* The goroutines that are between acquiring a permit and releasing it.
Holders == {w \in Workers : wpc[w] \in InPermit}

\* The positions at which a goroutine has run its deferred function to the end.
Finished == {"done", "panicking"}

\* C1: for --workers >= 1 and any number of queries, the number of goroutines that
\* are between acquiring a permit and releasing it (that may be inside getHTTPQuery)
\* is never more than maxConcurrentWorkers.
C1_BoundedConcurrency ==
    argWorkers >= 1 => Cardinality(Holders) <= argWorkers

\* C1 witness: the pool is full with a call in flight while another goroutine,
\* already started, waits for a permit.
C1_Witness ==
    /\ argWorkers >= 1
    /\ Cardinality(Holders) = argWorkers
    /\ \E w \in Workers : wpc[w] = "inflight"
    /\ \E w \in Workers : wpc[w] = "acquire"

\* C2: once benchmark is past wg.Wait (and when it has returned), every one of the
\* len(queries) goroutines has finished its call, stored its outcome and released
\* its permit: none is still running or holds a permit.
C2_ReturnAfterJoin ==
    mainPc \in {"stats", "returned"} =>
        /\ spawned = Len(queries)
        /\ \A w \in Workers : wpc[w] \in Finished /\ ~wheld[w]
        /\ permits = 0

\* C2 witness: benchmark has returned from a batch of two or more descriptors that
\* ran concurrently.
C2_Witness ==
    /\ mainPc = "returned"
    /\ Len(queries) >= 2
    /\ argWorkers >= 2
    /\ \A w \in Workers : wpc[w] = "done"

\* C3: when benchmark returns, each descriptor has contributed exactly one entry to
\* the collected outcomes: len(queryList) + len(errorList) = len(queries).
C3_NoOutcomeLost ==
    mainPc = "returned" => Len(queryList) + Len(errorList) = Len(queries)

\* The positions of a goroutine that panicked.
Panicked == {"panicRelease", "panicWgDone", "panicking"}

\* C4: a failed call is recorded as a cause and does not abort the batch: the
\* goroutine whose call failed does not panic, and the process does not end on it.
C4_FailureDoesNotAbort ==
    /\ \A w \in Workers : werr[w] # 0 => wpc[w] \notin Panicked
    /\ proc # "panic_nilderef"

\* C5: a batch with zero descriptors (and --workers >= 1) completes normally: the
\* process ends only by main returning, with Processed = 0 and no errors.
C5_EmptyBatchCompletes ==
    (Len(queries) = 0 /\ argWorkers >= 1 /\ argFilepath # "" /\ proc # "running") =>
        /\ proc = "exit0"
        /\ stats.Processed = 0
        /\ stats.Errors = <<>>

\* C6: for --workers >= 1 and any descriptor list, with every call coming back and
\* the goroutines scheduled fairly, benchmark eventually returns a Stats value.
C6_EventuallyReturns ==
    (argWorkers >= 1 /\ argFilepath # "") ~> (mainPc = "returned")

\* C7: a --workers value below 1 is rejected at startup: benchmark is never entered,
\* and no channel is made, with a capacity below 1.
C7_NonPositiveWorkersRejected ==
    (mainPc \in {"spawn", "wait", "stats", "returned"} \/ proc = "panic_makechan") =>
        argWorkers >= 1

\* C8: whenever benchmark returns a Stats value, Processed + len(Errors) equals the
\* number of descriptors passed in.
C8_ProcessedPlusErrors ==
    mainPc = "returned" => stats.Processed + Len(stats.Errors) = Len(queries)

\* C8 witness: benchmark has returned from a batch in which one call succeeded and
\* another failed.
C8_Witness ==
    /\ mainPc = "returned"
    /\ stats.Processed >= 1
    /\ Len(stats.Errors) >= 1

\* The slices that hold, or are about to be stored as, queryList.
QueryLists == {queryList} \cup {wtmp[w] : w \in {v \in Workers : wpc[v] = "queryWrite"}}

\* The slices that hold, or are about to be stored as, errorList.
ErrorLists == {errorList} \cup {wtmp[w] : w \in {v \in Workers : wpc[v] = "errWrite"}}

Elapsed(ql) == [i \in 1 .. Len(ql) |-> ql[i].End - ql[i].Start]

\* The k-th smallest of the numbers d[1..n], counted with repetitions: the value
\* with fewer than k elements below it and at least k elements not above it.
KthSmallest(d, k) ==
    CHOOSE v \in {d[i] : i \in 1 .. Len(d)} :
        /\ Cardinality({i \in 1 .. Len(d) : d[i] < v}) < k
        /\ Cardinality({i \in 1 .. Len(d) : d[i] <= v}) >= k

\* Equality of two rationals with positive denominators.
RatEq(a, b) == a.num * b.den = b.num * a.den

\* C10: for every non-empty list, Median is the middle element of the sorted elapsed
\* times when the count is odd and the mean of the two middle elements when it is
\* even, whatever the order of the list.
C10_Median ==
    (mainPc = "tested" /\ Len(queryList) > 0) =>
        LET d == Elapsed(queryList)
            n == Len(d)
        IN  IF n % 2 = 1
            THEN RatEq(stats.Median, Rat(KthSmallest(d, (n + 1) \div 2), 1))
            ELSE RatEq(stats.Median,
                       Rat(KthSmallest(d, n \div 2) + KthSmallest(d, n \div 2 + 1), 2))

\* C10 witness: the elapsed times 4, 1, 3, 2, out of order, with median 2.5.
C10_Witness ==
    /\ mainPc = "tested"
    /\ Elapsed(queryList) = <<4, 1, 3, 2>>
    /\ stats.Median = Rat(5, 2)

\* The elapsed times of a query list, as a set.
ElapsedSet(ql) == {ql[i].End - ql[i].Start : i \in 1 .. Len(ql)}

\* C11: for every non-empty list, Slowest is the maximum of End - Start over the
\* list, whatever values the elapsed times take.
C11_SlowestIsMax ==
    (mainPc = "tested" /\ Len(queryList) > 0) =>
        /\ stats.Slowest \in ElapsedSet(queryList)
        /\ \A d \in ElapsedSet(queryList) : d <= stats.Slowest

\* C12: for every non-empty list, Fastest is the minimum of End - Start over the list.
C12_FastestIsMin ==
    (mainPc = "tested" /\ Len(queryList) > 0) =>
        /\ stats.Fastest \in ElapsedSet(queryList)
        /\ \A d \in ElapsedSet(queryList) : stats.Fastest <= d

\* C12 witness: a list of several queries whose smallest elapsed time is positive
\* and is not the first of the list.
C12_Witness ==
    /\ mainPc = "tested"
    /\ Len(queryList) >= 3
    /\ stats.Fastest = 1
    /\ Elapsed(queryList)[1] > 1

\* a <= b for an integer a and a rational b with a positive denominator.
IntLeRat(a, b) == a * b.den <= b.num

\* a <= b for a rational a with a positive denominator and an integer b.
RatLeInt(a, b) == a.num <= b * a.den

\* C13: for every non-empty list of outcomes, Fastest <= Median <= Slowest and
\* Fastest <= Average <= Slowest.
C13_Ordered ==
    (mainPc = "tested" /\ Len(queryList) > 0) =>
        /\ IntLeRat(stats.Fastest, stats.Median)
        /\ RatLeInt(stats.Median, stats.Slowest)
        /\ IntLeRat(stats.Fastest, stats.Average)
        /\ RatLeInt(stats.Average, stats.Slowest)

\* C13 witness: a list whose fastest, median, average and slowest all differ.
C13_Witness ==
    /\ mainPc = "tested"
    /\ Elapsed(queryList) = <<4, 0, 1, 2>>
    /\ stats.Fastest = 0
    /\ stats.Median = Rat(3, 2)
    /\ stats.Average = Rat(7, 4)
    /\ stats.Slowest = 4

\* C15: a call of getHTTPQuery changes nothing that goroutines share, so the request
\* a goroutine sends is the one built from its own descriptor: when it calls Get,
\* c.URL holds the query string of its own q.
C15_OwnRequestSent ==
    [][\A w \in Workers :
          (wpc[w] = "get" /\ wpc'[w] = "inflight") => urlRawQuery = wq[w].Query]_vars

\* The positions at which a goroutine has run the first statement of its deferred
\* function.
Released == {"wgDone", "panicWgDone", "done", "panicking"}

\* C16: a goroutine that acquired a permit releases that one permit once, on return
\* and on panic alike, before it signals the WaitGroup: the permits held are those of
\* the goroutines between send and receive, never negative, and none once every
\* goroutine has finished.
C16_PermitReleasedOnce ==
    /\ permits >= 0
    /\ permits = Cardinality(Holders)
    /\ \A w \in Workers : wheld[w] <=> wpc[w] \in InPermit
    /\ \A w \in Workers : wpc[w] \in Released => ~wheld[w]
    /\ wg = Len(queries) - Cardinality({w \in Workers : wpc[w] \in Finished})
          \/ mainPc \in {"parseFlags", "benchmark"}
    /\ (mainPc \in {"wait", "stats", "returned"} /\ \A w \in Workers : wpc[w] \in Finished)
          => permits = 0

\* C16 witness: of two goroutines that held a permit, one has returned and one has
\* panicked, and no permit is held.
C16_Witness ==
    /\ permits = 0
    /\ \E w \in Workers : wpc[w] = "done"
    /\ \E w \in Workers : wpc[w] = "panicking"

\* The goroutines whose q holds the measured window of a successful call.
Timed == {w \in Workers : wpc[w] \in {"queryWrite", "release", "wgDone", "done"}}

\* C17: the batch start is read before any goroutine is started and the batch end
\* after the join, so the batch window encloses the measured window of every query,
\* and Total is the difference of the two batch timestamps.
C17_BatchWindow ==
    /\ \A w \in Timed : bstart <= wq[w].Start /\ wq[w].Start <= wq[w].End
    /\ \A i \in 1 .. Len(queryList) : bstart <= queryList[i].Start
    /\ mainPc \in {"stats", "returned"} =>
           /\ \A w \in Timed : wq[w].End <= bend
           /\ \A i \in 1 .. Len(queryList) : queryList[i].End <= bend
    /\ mainPc = "returned" => stats.Total = bend - bstart

\* C17 witness: benchmark has returned from a batch in which one query started after
\* the batch start and another ended before the batch end.
C17_Witness ==
    /\ mainPc = "returned"
    /\ \E i \in 1 .. Len(queryList) : queryList[i].Start > bstart
    /\ \E i \in 1 .. Len(queryList) : queryList[i].End < bend
    /\ stats.Total = bend - bstart

\* C18: benchmark reads its descriptor list and does not write it: every element of
\* the caller's list keeps its text, Start, End and Step, while the goroutines
\* overwrite Start and End in the copies they record.
C18_DescriptorsUnchanged ==
    queries = FileQueries(Len(queries))

\* C18 witness: benchmark has returned, and every recorded entry holds a measured
\* window that differs from the requested range of its descriptor.
C18_Witness ==
    /\ mainPc = "returned"
    /\ Len(queryList) >= 1
    /\ \A i \in 1 .. Len(queryList) :
           <<queryList[i].Start, queryList[i].End>> #
               <<queries[queryList[i].Query].Start, queries[queryList[i].Query].End>>

PostCall == {"errWrite", "queryWrite", "release", "panicRelease", "wgDone",
             "panicWgDone", "done", "panicking"}

\* C20: one call of getHTTPQuery sends one Get and never another; it returns a
\* Response, carrying the start and end it measured, exactly when Get came back
\* without an error and with status 200, and otherwise an error (the transport
\* error or the status that is not 200) and no Response.
C20_OneGetSuccessIff200 ==
    [][\A w \in Workers :
          /\ wpc[w] \in PostCall => wpc'[w] \in PostCall
          /\ wpc[w] = "inflight" => wpc'[w] \in PostCall \cup {"inflight"}
          /\ (wpc[w] = "inflight" /\ wpc'[w] \in PostCall) =>
                /\ werr'[w] = 0 <=> ~wresp'[w].isNil
                /\ werr'[w] # 200
                /\ ~wresp'[w].isNil =>
                      /\ wresp'[w].StatusCode = 200
                      /\ wresp'[w].Start = wstart[w]
                      /\ wresp'[w].End = now'
                      /\ wresp'[w].Start <= wresp'[w].End]_vars

\* C20 witness: one call has come back with status 204 and returned that as its
\* error with no Response, another has come back with 200 and returned a Response.
C20_Witness ==
    \E w, v \in Workers :
        /\ wpc[w] = "errWrite" /\ werr[w] = 204 /\ wresp[w].isNil
        /\ wpc[v] = "queryWrite" /\ werr[v] = 0 /\ wresp[v].StatusCode = 200

\* Two Stats have the same latency statistics, Processed and Errors.
SameOutcome(a, b) ==
    /\ a.Fastest = b.Fastest
    /\ a.Slowest = b.Slowest
    /\ RatEq(a.Median, b.Median)
    /\ RatEq(a.Average, b.Average)
    /\ a.Processed = b.Processed
    /\ a.Errors = b.Errors

\* C14: benchmark called twice on the same list, with Get coming back the same for
\* each descriptor both times, returns the same latency statistics, Processed and
\* Errors both times, for every number of workers >= 1 and every interleaving.
C14_SameOutcomeBothRuns ==
    (firstRun.ran /\ argWorkers >= 1 /\ mainPc = "returned") =>
        SameOutcome(stats, firstRun.stats)

\* The string without its first n characters.
Drop(str, n) == SubSeq(str, n + 1, Len(str))

\* C21: newHTTPClient gives scheme "https" and the host as it was when the string has
\* no scheme prefix that is recognised; when it begins with "http://", "https://" or
\* "ftp://", the scheme is that prefix without "://" and the host is the string
\* without exactly that prefix.
C21_SchemeAndHost ==
    mainPc = "clientMade" =>
        IF \E pre \in SchemePrefixes : HasPrefix(argURL, pre)
        THEN \A pre \in SchemePrefixes :
                HasPrefix(argURL, pre) =>
                    /\ cliURL.Scheme = SubSeq(pre, 1, Len(pre) - 3)
                    /\ cliURL.Host = Drop(argURL, Len(pre))
        ELSE /\ cliURL.Scheme = <<"h", "t", "t", "p", "s">>
             /\ cliURL.Host = argURL

====
